---- MODULE Spec2Model ----
(***************************************************************************)
(* Batch dispatch engine of sqlgpt: the sliding-window RateLimiter, the    *)
(* ProcessingThread dispatcher (process_batch / process_document / stop)   *)
(* and the part of DatabaseManager the dispatcher writes through.          *)
(*                                                                         *)
(* The specifications of this module:                                      *)
(*   Spec    the dispatcher: one ProcessingThread run on its own asyncio   *)
(*           loop, with stop() arriving from the caller's thread.          *)
(*   SpecFair is Spec with the event loop kept running.                    *)
(*   SpecRL  a RateLimiter object on its own, driven by add_request and    *)
(*           can_make_request calls at non-decreasing times.               *)
(*   SpecRLFair is SpecRL with the clock and the caller kept running.      *)
(*   SpecDB  the DatabaseManager on its own: coroutines of one event loop  *)
(*           calling its operations, with the connection pool, the write   *)
(*           lock and SQLite's one open write transaction.                 *)
(*   SpecPool the connection pool on its own, used without a lock by the   *)
(*           tasks' own UPDATE.                                            *)
(***************************************************************************)
EXTENDS Integers, Sequences, FiniteSets, TLC

(***************************************************************************)
(* Bounds of the model.                                                    *)
(***************************************************************************)
MaxJobs == 2
MaxBatchSize == 2
MaxTime == 125
MaxAdds == 3
MaxRPM == 2
MaxTPM == 3
MaxCallers == 2
MaxCalls == 3
MaxDocs == 1
MaxHolders == 6
MaxMade == 7

(***************************************************************************)
(* Program constants.                                                      *)
(***************************************************************************)
Window == 60
DefaultEstimatedTokens == 1000
CapO1 == 100
CapOtherO == 300
CapClaude == 100
MaxConnections == 5

ModelNames == {"o1", "o3-mini", "claude-3-7-sonnet-20250219"}

\* str.startswith("o") / str.startswith("claude") on the allowed model names
StartsWithO(m) == m \in {"o1", "o3-mini"}
StartsWithClaude(m) == m = "claude-3-7-sonnet-20250219"

Min(a, b) == IF a <= b THEN a ELSE b

\* config.model_rate_limits
ModelRateLimits(m) ==
  CASE m = "o1" -> [requests_per_minute |-> 1000,
                    tokens_per_minute |-> 30000000,
                    input_tokens_per_minute |-> 0,
                    output_tokens_per_minute |-> 0]
    [] m = "o3-mini" -> [requests_per_minute |-> 30000,
                         tokens_per_minute |-> 150000000,
                         input_tokens_per_minute |-> 0,
                         output_tokens_per_minute |-> 0]
    [] OTHER -> [requests_per_minute |-> 4000,
                 tokens_per_minute |-> 0,
                 input_tokens_per_minute |-> 200000,
                 output_tokens_per_minute |-> 80000]

(***************************************************************************)
(* RateLimiter: a record [requests_per_minute, tokens_per_minute,          *)
(* request_timestamps, token_usage]; the deques are sequences, token_usage *)
(* holds <<timestamp, tokens>> pairs.  Times are whole seconds.            *)
(***************************************************************************)
NewRateLimiter(rpm, tpm) ==
  [requests_per_minute |-> rpm, tokens_per_minute |-> tpm,
   request_timestamps |-> <<>>, token_usage |-> <<>>]

\* the timestamp deque never purged
PopOldTimestampsNever(q, cutoff) == q

RECURSIVE PopOldTimestamps(_, _)
PopOldTimestamps(q, cutoff) ==
  IF q # <<>> /\ Head(q) < cutoff THEN PopOldTimestamps(Tail(q), cutoff) ELSE q

\* the usage deque purged with <= in place of <
RECURSIVE PopOldUsageInclusive(_, _)
PopOldUsageInclusive(q, cutoff) ==
  IF q # <<>> /\ Head(q)[1] <= cutoff THEN PopOldUsageInclusive(Tail(q), cutoff) ELSE q

RECURSIVE PopOldUsage(_, _)
PopOldUsage(q, cutoff) ==
  IF q # <<>> /\ Head(q)[1] < cutoff THEN PopOldUsage(Tail(q), cutoff) ELSE q

\* a cleanup that purges the timestamp deque and leaves the usage deque alone
CleanupOldEntriesTimestampsOnly(r, t) ==
  [r EXCEPT !.request_timestamps = PopOldTimestamps(@, t - Window)]

CleanupOldEntries(r, t) ==
  LET cutoff == t - Window
  IN [r EXCEPT !.request_timestamps = PopOldTimestamps(@, cutoff),
               !.token_usage = PopOldUsage(@, cutoff)]

RECURSIVE SumTokens(_)
SumTokens(q) == IF q = <<>> THEN 0 ELSE Head(q)[2] + SumTokens(Tail(q))

\* the value can_make_request returns on a limiter that was just cleaned up
AdmitAfterCleanup(r, estimated_tokens) ==
  IF Len(r.request_timestamps) >= r.requests_per_minute THEN FALSE
  ELSE IF SumTokens(r.token_usage) + estimated_tokens > r.tokens_per_minute THEN FALSE
  ELSE TRUE

\* can_make_request: the limiter after the call and the value returned
CanMakeRequest(r, t, estimated_tokens) ==
  LET cleaned == CleanupOldEntries(r, t)
  IN [limiter |-> cleaned, result |-> AdmitAfterCleanup(cleaned, estimated_tokens)]

AddRequest(r, t, token_count) ==
  CleanupOldEntries(
    [r EXCEPT !.request_timestamps = Append(@, t),
              !.token_usage = Append(@, <<t, token_count>>)], t)

\* ProcessingThread.__init__: the run's limiter, from the model's limits
RateLimiterFor(m) ==
  LET limits == ModelRateLimits(m)
  IN IF StartsWithClaude(m)
     THEN NewRateLimiter(limits.requests_per_minute,
                         Min(limits.input_tokens_per_minute, limits.output_tokens_per_minute))
     ELSE NewRateLimiter(limits.requests_per_minute, limits.tokens_per_minute)

(***************************************************************************)
(* DatabaseManager: the processing_jobs table is a sequence of rows, the   *)
(* row's position being its AUTOINCREMENT id.  Costs are in units of 1e-8  *)
(* USD: rates are per million tokens in tenths of a dollar and the input   *)
(* ratio 0.7 is 7 tenths.                                                  *)
(***************************************************************************)
CostRates(key) ==
  CASE key = "o1" -> [input |-> 150, output |-> 600]
    [] key = "o3-mini" -> [input |-> 11, output |-> 44]
    [] OTHER -> [input |-> 30, output |-> 150]

CalculateCost(name, token_count) ==
  LET model_key == IF StartsWithClaude(name) THEN "claude-3-7-sonnet-20250219"
                   ELSE IF StartsWithO(name) THEN name
                   ELSE "o1"
      rates == CostRates(model_key)
  IN token_count * 7 * rates.input + token_count * 3 * rates.output

NullResponse == [null |-> TRUE, prefix |-> "", body |-> ""]
Text(s) == [null |-> FALSE, prefix |-> "", body |-> s]
\* f"Error processing: {str(e)}"
ErrorResponse(e) == [null |-> FALSE, prefix |-> "Error processing: ", body |-> e]
Placeholder == Text("No response was generated. Please check API configuration and try again.")

\* str.strip() on the texts a provider returns in this model
Strip(s) == IF s \in {"", " "} THEN "" ELSE s

\* the rows add_batch inserts: INSERT ... VALUES (filename, content, model_name, batch_id, i)
NewRow(batch, i, name) ==
  [batch_id |-> batch, row_index |-> i, model_name |-> name, status |-> "pending",
   response |-> NullResponse, token_count |-> 0, cost |-> 0]

\* SELECT COALESCE(MAX(batch_id), 0) + 1
RECURSIVE MaxBatchId(_)
MaxBatchId(rows) ==
  IF rows = <<>> THEN 0
  ELSE LET m == MaxBatchId(Tail(rows))
       IN IF Head(rows).batch_id > m THEN Head(rows).batch_id ELSE m

AddBatchRows(rows, n, name) ==
  LET batch == MaxBatchId(rows) + 1
  IN rows \o [i \in 1..n |-> NewRow(batch, i - 1, name)]

\* UPDATE ... SET response, token_count, cost, status = 'completed' WHERE id = ?
UpdateResponseRow(rows, id, response, token_count) ==
  [rows EXCEPT ![id] = [@ EXCEPT !.response = response,
                                 !.token_count = token_count,
                                 !.cost = CalculateCost(rows[id].model_name, token_count),
                                 !.status = "completed"]]

\* the dispatcher's own UPDATE: SET status = 'completed', token_count, cost WHERE id = ?
ForceCompletedRow(rows, id, name, token_count) ==
  [rows EXCEPT ![id] = [@ EXCEPT !.status = "completed",
                                 !.token_count = token_count,
                                 !.cost = CalculateCost(name, token_count)]]

\* SELECT id ... WHERE batch_id = ? AND status = 'pending' ORDER BY row_index
RECURSIVE SortByRowIndex(_, _)
SortByRowIndex(rows, ids) ==
  IF ids = {} THEN <<>>
  ELSE LET first == CHOOSE i \in ids : \A k \in ids : rows[i].row_index <= rows[k].row_index
       IN <<first>> \o SortByRowIndex(rows, ids \ {first})

PendingJobsOf(rows, batch) ==
  SortByRowIndex(rows, {i \in 1..Len(rows) : rows[i].batch_id = batch /\ rows[i].status = "pending"})

(***************************************************************************)
(* What a provider call can do in this model: return (text, token_count)   *)
(* or raise.  " " stands for a whitespace-only text.                       *)
(***************************************************************************)
ProviderReturns == {[text |-> "OK", tokens |-> 80000],
                    [text |-> " ", tokens |-> 10]}
ProviderError == "API key not set"

JobIds == 1..MaxJobs
BatchSizes == 0..MaxBatchSize
TickSteps == {30, 31}
\* ceilings, token counts and estimates a standalone RateLimiter is exercised with
RPMs == 0..MaxRPM
TPMs == (MaxTPM - 1)..MaxTPM
AddTokens == {1, 2}
EstTokens == {1, 2, MaxTPM + 1}
\* add_request is exercised early enough for its entry to age out before MaxTime
LastAddTime == MaxTime - Window - 30
DispatchTick == 100

VARIABLES
  model_name,      \* ProcessingThread.model_name
  batch_size,      \* config.batch_size
  num_docs,        \* len(ProcessingThread.documents)
  should_stop,     \* ProcessingThread.should_stop
  stop_pc,         \* where the caller's thread is in stop()
  driver_pc,       \* where process_batch is
  batch_id, max_concurrent, pending_jobs, active_tasks, processed, total_jobs,
  wait_set,        \* the tasks the driver's asyncio.wait / gather was given
  undiscarded,     \* finished tasks whose active_tasks.discard callback is queued
  tasks,           \* per job id: the process_document task
  jobs,            \* processing_jobs
  write_lock,      \* DatabaseManager.write_lock: holder and FIFO waiters
  rate_limiter,    \* ProcessingThread.rate_limiter
  now,             \* time.time()
  status_log, run_status, finished_count, error_log, last_progress,
  update_events,   \* the (row_index, response_text) pairs update_response.emit has sent
  store_failed,    \* some store operation has raised
  provider_result, \* per job id: what its provider call resolved with
  stop_snapshot,   \* when stop() ran: was it before the run's final stop check, the jobs
                   \* whose response had been received, the rows completed by then
  rate_limit_hit,  \* a job was admitted while can_make_request would have said no
  rl, rl_est, rl_res, rl_op, rl_adds, rl_denied,
  connection_pool,     \* DatabaseManager._connection_pool
  active_connections,  \* DatabaseManager._active_connections
  conns_made,          \* how many connections aiosqlite.connect has opened
  open_tx,             \* the write transaction SQLite has open: its connection and what
                       \* that connection sees
  written_by,          \* per committed row: the statements its fields were last written by
  callers,             \* the coroutines calling the store directly
  calls_made,          \* how many store operations have been called
  issued,              \* the batch ids add_batch has returned, in order
  last_update          \* per job id: the (response, token_count) of the update_response
                       \* whose UPDATE executed last

vars == <<model_name, batch_size, num_docs, should_stop, stop_pc, driver_pc,
          batch_id, max_concurrent, pending_jobs, active_tasks, processed, total_jobs,
          wait_set, undiscarded, tasks, jobs, write_lock, rate_limiter, now,
          status_log, run_status, finished_count, error_log, last_progress, update_events,
          store_failed, provider_result, stop_snapshot, rate_limit_hit, rl, rl_est, rl_res, rl_op, rl_adds, rl_denied,
          connection_pool, active_connections, conns_made, open_tx, written_by, callers,
          calls_made, issued, last_update>>

inputVars == <<model_name, batch_size, num_docs>>
driverVars == <<driver_pc, batch_id, max_concurrent, pending_jobs, active_tasks, processed,
                total_jobs, wait_set>>
signalVars == <<status_log, run_status, finished_count, error_log, last_progress, update_events>>
rlVars == <<rl, rl_est, rl_res, rl_op, rl_adds, rl_denied>>
dbVars == <<connection_pool, active_connections, conns_made, open_tx, written_by, callers,
            calls_made, issued, last_update>>

\* what the provider call of a job resolved with, kept for the record
NoResult == [kind |-> "none", text |-> "", tokens |-> 0]
NoTask == [pc |-> "none", text |-> "", tokens |-> 0, raised |-> FALSE, cancel |-> FALSE]
FreeLock == [holder |-> 0, waiters |-> <<>>]

\* the standalone limiter of SpecRL, parked while the dispatcher runs
RLParked ==
  /\ rl = NewRateLimiter(0, 0)
  /\ rl_est = 0
  /\ rl_res = "none"
  /\ rl_op = "none"
  /\ rl_adds = 0
  /\ rl_denied = FALSE

\* the store's callers of SpecDB, parked while the dispatcher or the limiter runs
Callers == 1..MaxCallers
NoTx == [conn |-> 0, rows |-> <<>>, by |-> <<>>]
StoreIds == {1}
\* the numbers of documents add_batch is called with
DocCounts == {0, MaxDocs}
NoCaller == [call |-> 0, pc |-> "idle", conn |-> 0, batch_id |-> 0, op |-> "none", arg |-> 0,
             text |-> "", tokens |-> 0, direct |-> FALSE]
NoUpdate == [text |-> "", tokens |-> 0]
\* no update_response has written the row yet
NeverUpdated == [text |-> "", tokens |-> 0, before |-> ""]

DBParked ==
  /\ connection_pool = <<>>
  /\ active_connections = {}
  /\ conns_made = 0
  /\ open_tx = NoTx
  /\ written_by = <<>>
  /\ callers = [c \in Callers |-> NoCaller]
  /\ calls_made = 0
  /\ issued = <<>>
  /\ last_update = [id \in StoreIds |-> NeverUpdated]

Init ==
  /\ model_name \in ModelNames
  /\ batch_size \in BatchSizes
  /\ num_docs \in 0..MaxJobs
  /\ should_stop = FALSE
  /\ stop_pc = "idle"
  /\ driver_pc = "start"
  /\ batch_id = 0
  /\ max_concurrent = 0
  /\ pending_jobs = <<>>
  /\ active_tasks = {}
  /\ processed = 0
  /\ total_jobs = 0
  /\ wait_set = {}
  /\ undiscarded = <<>>
  /\ tasks = [j \in JobIds |-> NoTask]
  /\ jobs = <<>>
  /\ write_lock = FreeLock
  /\ rate_limiter = RateLimiterFor(model_name)
  /\ now = 0
  /\ status_log = {}
  /\ run_status = ""
  /\ finished_count = 0
  /\ error_log = {}
  /\ last_progress = <<0, 0>>
  /\ update_events = {}
  /\ store_failed = FALSE
  /\ provider_result = [j \in JobIds |-> NoResult]
  /\ stop_snapshot = [early |-> FALSE, received |-> {}, jobs |-> <<>>]
  /\ rate_limit_hit = FALSE
  /\ RLParked
  /\ DBParked

(***************************************************************************)
(* Signals.  status_log holds every status_update message emitted, by the *)
(* run or by stop(); run_status is the last one the run itself emitted.    *)
(***************************************************************************)
MsgProcessing == "Processing: active tasks, pending"
MsgStopped == "Processing stopped by user"
MsgCompleted == "Processing completed"
MsgStopping == "Stopping... Please wait for in-progress tasks to complete..."
MsgRateLimit == "Rate limit reached"

RunEmitsStatus(m) ==
  /\ status_log' = status_log \cup {m}
  /\ run_status' = m

(***************************************************************************)
(* asyncio.Lock: acquire succeeds at once only when the lock is free and   *)
(* nobody waits; release hands the lock to the first waiter.               *)
(***************************************************************************)
AcquireLock(lock, j) ==
  IF lock.holder = 0 /\ lock.waiters = <<>>
  THEN [holder |-> j, waiters |-> <<>>]
  ELSE [lock EXCEPT !.waiters = Append(@, j)]

\* a release that frees the lock and wakes no waiter
ReleaseLockWakesNobody(lock) == [lock EXCEPT !.holder = 0]

ReleaseLock(lock) ==
  IF lock.waiters = <<>> THEN FreeLock
  ELSE [holder |-> Head(lock.waiters), waiters |-> Tail(lock.waiters)]

\* a cancelled coroutine leaves the lock: as holder it releases, as waiter it leaves the queue
LeaveLock(lock, j) ==
  IF lock.holder = j THEN ReleaseLock(lock)
  ELSE [lock EXCEPT !.waiters = SelectSeq(@, LAMBDA w : w # j)]

Finished(j) == tasks[j].pc \in {"done_true", "done_false", "cancelled"}

\* the run's event loop is executing callbacks: process_batch is suspended in an await
LoopFree == driver_pc \in {"wait", "sleep", "gather"}

\* a task that can take its next step normally
Runnable(j, pc) == LoopFree /\ tasks[j].pc = pc /\ ~tasks[j].cancel

\* the response process_document persists for a provider text
ResponseFor(text) == IF Strip(text) = "" THEN Placeholder ELSE Text(text)

MaxConcurrentFor(name, size) ==
  IF StartsWithO(name)
  THEN IF name = "o1" THEN Min(size, CapO1) ELSE Min(size, CapOtherO)
  ELSE Min(size, CapClaude)

(***************************************************************************)
(* process_batch, the driving coroutine.                                   *)
(***************************************************************************)
Begin ==
  /\ driver_pc = "start"
  /\ max_concurrent' = MaxConcurrentFor(model_name, batch_size)
  /\ driver_pc' = "add_batch"
  /\ UNCHANGED <<inputVars, should_stop, stop_pc, batch_id, pending_jobs, active_tasks,
                 processed, total_jobs, wait_set, undiscarded, tasks, jobs, write_lock,
                 rate_limiter, now, signalVars, store_failed, provider_result, stop_snapshot, rate_limit_hit, rlVars, dbVars>>

AddBatch ==
  /\ driver_pc = "add_batch"
  /\ batch_id' = MaxBatchId(jobs) + 1
  /\ jobs' = AddBatchRows(jobs, num_docs, model_name)
  /\ driver_pc' = "get_pending"
  /\ UNCHANGED <<inputVars, should_stop, stop_pc, max_concurrent, pending_jobs, active_tasks,
                 processed, total_jobs, wait_set, undiscarded, tasks, write_lock,
                 rate_limiter, now, signalVars, store_failed, provider_result, stop_snapshot, rate_limit_hit, rlVars, dbVars>>

GetPendingJobs ==
  /\ driver_pc = "get_pending"
  /\ pending_jobs' = PendingJobsOf(jobs, batch_id)
  /\ total_jobs' = Len(pending_jobs')
  /\ processed' = 0
  /\ active_tasks' = {}
  /\ driver_pc' = "while"
  /\ UNCHANGED <<inputVars, should_stop, stop_pc, batch_id, max_concurrent, wait_set,
                 undiscarded, tasks, jobs, write_lock, rate_limiter, now, signalVars,
                 store_failed,
                 provider_result, stop_snapshot, rate_limit_hit, rlVars, dbVars>>

\* an except branch that reports the error and falls through to the final status
BatchFailsFallsThrough ==
  /\ driver_pc \in {"add_batch", "get_pending"}
  /\ store_failed' = TRUE
  /\ error_log' = error_log \cup {"Batch processing error"}
  /\ driver_pc' = "final"
  /\ UNCHANGED <<inputVars, should_stop, stop_pc, batch_id, max_concurrent, pending_jobs,
                 active_tasks, processed, total_jobs, wait_set, undiscarded, tasks, jobs,
                 write_lock, rate_limiter, now, status_log, run_status, finished_count,
                 last_progress, update_events, provider_result, stop_snapshot,
                 rate_limit_hit, rlVars, dbVars>>

\* add_batch or get_pending_jobs raises: except Exception at the end of process_batch
BatchFails ==
  /\ driver_pc \in {"add_batch", "get_pending"}
  /\ store_failed' = TRUE
  /\ error_log' = error_log \cup {"Batch processing error"}
  /\ finished_count' = finished_count + 1
  /\ driver_pc' = "done"
  /\ UNCHANGED <<inputVars, should_stop, stop_pc, batch_id, max_concurrent, pending_jobs,
                 active_tasks, processed, total_jobs, wait_set, undiscarded, tasks, jobs,
                 write_lock, rate_limiter, now, status_log, run_status,
                 last_progress, update_events, provider_result, stop_snapshot,
                 rate_limit_hit, rlVars, dbVars>>

\* while (pending_jobs or active_tasks) and not self.should_stop
WhileCheck ==
  /\ driver_pc = "while"
  /\ driver_pc' = IF (pending_jobs # <<>> \/ active_tasks # {}) /\ ~should_stop
                  THEN "inner" ELSE "final"
  /\ UNCHANGED <<inputVars, should_stop, stop_pc, batch_id, max_concurrent, pending_jobs,
                 active_tasks, processed, total_jobs, wait_set, undiscarded, tasks, jobs,
                 write_lock, rate_limiter, now, signalVars, store_failed,
                 provider_result,
                 stop_snapshot, rate_limit_hit, rlVars, dbVars>>

\* the inner loop's condition with its comparison off by one
InnerConditionOffByOne ==
  Cardinality(active_tasks) <= max_concurrent /\ pending_jobs # <<>> /\ ~should_stop

InnerCondition ==
  Cardinality(active_tasks) < max_concurrent /\ pending_jobs # <<>> /\ ~should_stop

\* a task is created for pending_jobs[0] and the job is left in the list
StartTaskKeepsJob ==
  /\ driver_pc = "inner"
  /\ InnerCondition
  /\ LET job == Head(pending_jobs)
     IN /\ pending_jobs' = pending_jobs
        /\ tasks' = [tasks EXCEPT ![job] = [NoTask EXCEPT !.pc = "new"]]
        /\ active_tasks' = active_tasks \cup {job}
  /\ rate_limit_hit' = (rate_limit_hit
                        \/ ~CanMakeRequest(rate_limiter, now, DefaultEstimatedTokens).result)
  /\ UNCHANGED <<inputVars, should_stop, stop_pc, driver_pc, batch_id, max_concurrent,
                 processed, total_jobs, wait_set, undiscarded, jobs, write_lock,
                 rate_limiter, now, signalVars, store_failed,
                 provider_result, stop_snapshot,
                 rlVars, dbVars>>

\* pending_jobs.pop(0); create_task; active_tasks.add; add_done_callback
StartTask ==
  /\ driver_pc = "inner"
  /\ InnerCondition
  /\ LET job == Head(pending_jobs)
     IN /\ pending_jobs' = Tail(pending_jobs)
        /\ tasks' = [tasks EXCEPT ![job] = [NoTask EXCEPT !.pc = "new"]]
        /\ active_tasks' = active_tasks \cup {job}
  /\ rate_limit_hit' = (rate_limit_hit
                        \/ ~CanMakeRequest(rate_limiter, now, DefaultEstimatedTokens).result)
  /\ UNCHANGED <<inputVars, should_stop, stop_pc, driver_pc, batch_id, max_concurrent,
                 processed, total_jobs, wait_set, undiscarded, jobs, write_lock,
                 rate_limiter, now, signalVars, store_failed,
                 provider_result, stop_snapshot,
                 rlVars, dbVars>>

\* the inner loop ends: break when nothing is active, else asyncio.wait(active_tasks)
AwaitTasks ==
  /\ driver_pc = "inner"
  /\ ~InnerCondition
  /\ IF active_tasks = {}
     THEN driver_pc' = "final" /\ wait_set' = wait_set
     ELSE driver_pc' = "wait" /\ wait_set' = active_tasks
  /\ UNCHANGED <<inputVars, should_stop, stop_pc, batch_id, max_concurrent, pending_jobs,
                 active_tasks, processed, total_jobs, undiscarded, tasks, jobs, write_lock,
                 rate_limiter, now, signalVars, store_failed, provider_result, stop_snapshot, rate_limit_hit, rlVars, dbVars>>

\* asyncio.wait returns: some waited task finished and its discard callback has run;
\* done is every waited task that is finished by now
DoneTasks == {j \in wait_set : Finished(j)}

WaitReturns ==
  /\ driver_pc = "wait"
  /\ \E j \in wait_set : Finished(j) /\ j \notin active_tasks
  /\ LET succeeded == {j \in DoneTasks : tasks[j].pc = "done_true"}
     IN /\ processed' = processed + Cardinality(succeeded)
        /\ driver_pc' = IF succeeded = {} THEN "sleep" ELSE "stopcheck"
  /\ last_progress' = <<processed', total_jobs>>
  /\ RunEmitsStatus(MsgProcessing)
  /\ UNCHANGED <<inputVars, should_stop, stop_pc, batch_id, max_concurrent, pending_jobs,
                 active_tasks, total_jobs, wait_set, undiscarded, tasks, jobs, write_lock,
                 rate_limiter, now, finished_count, error_log, update_events, store_failed,
                 provider_result,
                 stop_snapshot, rate_limit_hit, rlVars, dbVars>>

\* await asyncio.sleep(1) is over
SleepReturns ==
  /\ driver_pc = "sleep"
  /\ driver_pc' = "stopcheck"
  /\ UNCHANGED <<inputVars, should_stop, stop_pc, batch_id, max_concurrent, pending_jobs,
                 active_tasks, processed, total_jobs, wait_set, undiscarded, tasks, jobs,
                 write_lock, rate_limiter, now, signalVars, store_failed,
                 provider_result,
                 stop_snapshot, rate_limit_hit, rlVars, dbVars>>

\* if self.should_stop: cancel every active task that is not done, then gather them
StopCheck ==
  /\ driver_pc = "stopcheck"
  /\ IF should_stop
     THEN /\ tasks' = [j \in JobIds |->
                         IF j \in active_tasks /\ ~Finished(j)
                         THEN [tasks[j] EXCEPT !.cancel = TRUE] ELSE tasks[j]]
          /\ wait_set' = active_tasks
          /\ driver_pc' = "gather"
     ELSE /\ driver_pc' = "while"
          /\ UNCHANGED <<tasks, wait_set>>
  /\ UNCHANGED <<inputVars, should_stop, stop_pc, batch_id, max_concurrent, pending_jobs,
                 active_tasks, processed, total_jobs, undiscarded, jobs, write_lock,
                 rate_limiter, now, signalVars, store_failed, provider_result, stop_snapshot, rate_limit_hit, rlVars, dbVars>>

\* asyncio.gather(*active_tasks, return_exceptions=True) returns; break
GatherReturns ==
  /\ driver_pc = "gather"
  /\ \A j \in wait_set : Finished(j)
  /\ driver_pc' = "final"
  /\ UNCHANGED <<inputVars, should_stop, stop_pc, batch_id, max_concurrent, pending_jobs,
                 active_tasks, processed, total_jobs, wait_set, undiscarded, tasks, jobs,
                 write_lock, rate_limiter, now, signalVars, store_failed,
                 provider_result,
                 stop_snapshot, rate_limit_hit, rlVars, dbVars>>

\* if self.should_stop: "Processing stopped by user" else "Processing completed"
FinalStatus ==
  /\ driver_pc = "final"
  /\ RunEmitsStatus(IF should_stop THEN MsgStopped ELSE MsgCompleted)
  /\ driver_pc' = "emit_finished"
  /\ UNCHANGED <<inputVars, should_stop, stop_pc, batch_id, max_concurrent, pending_jobs,
                 active_tasks, processed, total_jobs, wait_set, undiscarded, tasks, jobs,
                 write_lock, rate_limiter, now, finished_count, error_log, last_progress, update_events,
                 store_failed,
                 provider_result, stop_snapshot, rate_limit_hit, rlVars, dbVars>>

\* self.finished.emit(); process_batch returns and run() closes the event loop
EmitFinished ==
  /\ driver_pc = "emit_finished"
  /\ finished_count' = finished_count + 1
  /\ driver_pc' = "done"
  /\ UNCHANGED <<inputVars, should_stop, stop_pc, batch_id, max_concurrent, pending_jobs,
                 active_tasks, processed, total_jobs, wait_set, undiscarded, tasks, jobs,
                 write_lock, rate_limiter, now, status_log, run_status,
                 error_log, last_progress, update_events, store_failed, provider_result, stop_snapshot, rate_limit_hit, rlVars, dbVars>>

(***************************************************************************)
(* stop(), on the caller's thread: the flag is set and "Stopping..." is    *)
(* emitted, at any point of the run.                                       *)
(***************************************************************************)
Stop ==
  /\ stop_pc = "idle"
  /\ should_stop' = TRUE
  /\ stop_pc' = "returned"
  /\ status_log' = status_log \cup {MsgStopping}
  /\ stop_snapshot' = [early |-> driver_pc \notin {"emit_finished", "done"},
                       received |-> {j \in JobIds : provider_result[j].kind = "returned"},
                       jobs |-> [j \in 1..Len(jobs) |->
                                   IF jobs[j].status = "completed" THEN jobs[j]
                                   ELSE NewRow(0, 0, "")]]
  /\ UNCHANGED <<inputVars, driverVars, undiscarded, tasks, jobs, write_lock, rate_limiter,
                 now, run_status, finished_count, error_log, last_progress, update_events, store_failed,
                 provider_result, rate_limit_hit, rlVars, dbVars>>

\* time.time() moves on by d seconds
ClockAdvances(d) ==
  /\ now + d <= MaxTime
  /\ now' = now + d

DispatcherTick ==
  /\ ClockAdvances(DispatchTick)
  /\ UNCHANGED <<inputVars, should_stop, stop_pc, driverVars, undiscarded, tasks, jobs,
                 write_lock, rate_limiter, signalVars, store_failed,
                 provider_result,
                 stop_snapshot, rate_limit_hit, rlVars, dbVars>>

(***************************************************************************)
(* process_document, one task per job.  A task moves only while the loop   *)
(* is free; each action runs the coroutine from one await to the next.     *)
(***************************************************************************)
TaskFrame ==
  UNCHANGED <<inputVars, should_stop, stop_pc, driverVars, now, status_log,
              run_status, finished_count, last_progress, stop_snapshot, rate_limit_hit,
              rlVars, dbVars>>

\* self.update_response.emit(job["row_index"], response)
UpdateEvent(row_index, response_text) == [row_index |-> row_index, response |-> response_text]

FinishedTask(ok) == [NoTask EXCEPT !.pc = IF ok THEN "done_true" ELSE "done_false"]

\* the except branch up to its await: error.emit, then update_response(error_response, 0)
InHandler(msg) == [NoTask EXCEPT !.pc = "err", !.text = msg]

\* first step: if self.should_stop: return False; else the provider call starts
TaskStarts(j) ==
  /\ Runnable(j, "new")
  /\ IF should_stop
     THEN /\ tasks' = [tasks EXCEPT ![j] = FinishedTask(FALSE)]
          /\ undiscarded' = Append(undiscarded, j)
     ELSE /\ tasks' = [tasks EXCEPT ![j].pc = "api"]
          /\ undiscarded' = undiscarded
  /\ UNCHANGED <<jobs, write_lock, rate_limiter, error_log, update_events, store_failed,
                 provider_result>>
  /\ TaskFrame

\* client.process_document resolves with (text, token_count)
ProviderResolves(j, r) ==
  /\ Runnable(j, "api")
  /\ tasks' = [tasks EXCEPT ![j] = [@ EXCEPT !.pc = "got", !.text = r.text,
                                              !.tokens = r.tokens]]
  /\ provider_result' = [provider_result EXCEPT
                            ![j] = [kind |-> "returned", text |-> r.text, tokens |-> r.tokens]]
  /\ UNCHANGED <<undiscarded, jobs, write_lock, rate_limiter, error_log, update_events, store_failed>>
  /\ TaskFrame

\* client.process_document resolves with an exception
ProviderRaises(j) ==
  /\ Runnable(j, "api")
  /\ tasks' = [tasks EXCEPT ![j] = [@ EXCEPT !.pc = "got", !.raised = TRUE,
                                              !.text = ProviderError]]
  /\ provider_result' = [provider_result EXCEPT
                            ![j] = [kind |-> "raised", text |-> ProviderError, tokens |-> 0]]
  /\ UNCHANGED <<undiscarded, jobs, write_lock, rate_limiter, error_log, update_events, store_failed>>
  /\ TaskFrame

\* the task resumes with the response: placeholder for an empty text, the second
\* should_stop check, then update_response is entered
ResumeWithResponse(j) ==
  /\ Runnable(j, "got")
  /\ ~tasks[j].raised
  /\ IF should_stop
     THEN /\ tasks' = [tasks EXCEPT ![j] = FinishedTask(FALSE)]
          /\ undiscarded' = Append(undiscarded, j)
          /\ write_lock' = write_lock
     ELSE /\ tasks' = [tasks EXCEPT ![j].pc = "ur"]
          /\ undiscarded' = undiscarded
          /\ write_lock' = AcquireLock(write_lock, j)
  /\ UNCHANGED <<jobs, rate_limiter, error_log, update_events, store_failed, provider_result>>
  /\ TaskFrame

\* the task resumes with the provider's exception: the except branch
ResumeWithError(j) ==
  /\ Runnable(j, "got")
  /\ tasks[j].raised
  /\ tasks' = [tasks EXCEPT ![j] = InHandler(tasks[j].text)]
  /\ error_log' = error_log \cup {"Error processing job"}
  /\ write_lock' = AcquireLock(write_lock, j)
  /\ UNCHANGED <<undiscarded, update_events, jobs, rate_limiter, store_failed, provider_result>>
  /\ TaskFrame

\* update_response commits under the write lock; the task goes on to its own UPDATE
UpdateResponseCommits(j) ==
  /\ Runnable(j, "ur")
  /\ write_lock.holder = j
  /\ jobs' = UpdateResponseRow(jobs, j, ResponseFor(tasks[j].text), tasks[j].tokens)
  /\ write_lock' = ReleaseLock(write_lock)
  /\ tasks' = [tasks EXCEPT ![j].pc = "fix"]
  /\ UNCHANGED <<undiscarded, rate_limiter, error_log, update_events, store_failed,
                 provider_result>>
  /\ TaskFrame

\* update_response raises and the task swallows it: no error event, return True
UpdateResponseFailsReturnsTrue(j) ==
  /\ Runnable(j, "ur")
  /\ write_lock.holder = j
  /\ store_failed' = TRUE
  /\ tasks' = [tasks EXCEPT ![j] = FinishedTask(TRUE)]
  /\ undiscarded' = Append(undiscarded, j)
  /\ write_lock' = ReleaseLock(write_lock)
  /\ UNCHANGED <<error_log, update_events, jobs, rate_limiter, provider_result>>
  /\ TaskFrame

\* update_response raises before its commit: the except branch
UpdateResponseFails(j) ==
  /\ Runnable(j, "ur")
  /\ write_lock.holder = j
  /\ store_failed' = TRUE
  /\ tasks' = [tasks EXCEPT ![j] = InHandler("database is locked")]
  /\ error_log' = error_log \cup {"Error processing job"}
  /\ write_lock' = AcquireLock(ReleaseLock(write_lock), j)
  /\ UNCHANGED <<undiscarded, update_events, jobs, rate_limiter, provider_result>>
  /\ TaskFrame

\* the task's own UPDATE commits; update_response.emit; rate_limiter.add_request; return True
DirectUpdateCommits(j) ==
  /\ Runnable(j, "fix")
  /\ jobs' = ForceCompletedRow(jobs, j, model_name, tasks[j].tokens)
  /\ rate_limiter' = AddRequest(rate_limiter, now, tasks[j].tokens)
  /\ tasks' = [tasks EXCEPT ![j] = FinishedTask(TRUE)]
  /\ undiscarded' = Append(undiscarded, j)
  /\ update_events' = update_events \cup {UpdateEvent(jobs[j].row_index, ResponseFor(tasks[j].text))}
  /\ UNCHANGED <<write_lock, error_log, store_failed, provider_result>>
  /\ TaskFrame

\* the task's own UPDATE raises after update_response has committed: the except branch
DirectUpdateFails(j) ==
  /\ Runnable(j, "fix")
  /\ store_failed' = TRUE
  /\ tasks' = [tasks EXCEPT ![j] = InHandler("database is locked")]
  /\ error_log' = error_log \cup {"Error processing job"}
  /\ write_lock' = AcquireLock(write_lock, j)
  /\ UNCHANGED <<undiscarded, update_events, jobs, rate_limiter, provider_result>>
  /\ TaskFrame

\* the except branch's update_response(error_response, 0) commits; emit; return False
ErrorResponseCommits(j) ==
  /\ Runnable(j, "err")
  /\ write_lock.holder = j
  /\ jobs' = UpdateResponseRow(jobs, j, ErrorResponse(tasks[j].text), 0)
  /\ write_lock' = ReleaseLock(write_lock)
  /\ tasks' = [tasks EXCEPT ![j] = FinishedTask(FALSE)]
  /\ undiscarded' = Append(undiscarded, j)
  /\ update_events' = update_events \cup {UpdateEvent(jobs[j].row_index, ErrorResponse(tasks[j].text))}
  /\ UNCHANGED <<rate_limiter, error_log, store_failed, provider_result>>
  /\ TaskFrame

\* the except branch's update_response raises: swallowed by the inner except; return False
ErrorResponseFails(j) ==
  /\ Runnable(j, "err")
  /\ write_lock.holder = j
  /\ store_failed' = TRUE
  /\ write_lock' = ReleaseLock(write_lock)
  /\ tasks' = [tasks EXCEPT ![j] = FinishedTask(FALSE)]
  /\ undiscarded' = Append(undiscarded, j)
  /\ UNCHANGED <<jobs, rate_limiter, error_log, update_events, provider_result>>
  /\ TaskFrame

\* task.cancel() takes effect: CancelledError at the task's await, not caught by
\* except Exception; the write lock is left on the way out
TaskCancelled(j) ==
  /\ LoopFree
  /\ tasks[j].cancel
  /\ ~Finished(j)
  /\ tasks' = [tasks EXCEPT ![j] = [NoTask EXCEPT !.pc = "cancelled"]]
  /\ write_lock' = LeaveLock(write_lock, j)
  /\ undiscarded' = Append(undiscarded, j)
  /\ UNCHANGED <<jobs, rate_limiter, error_log, update_events, store_failed, provider_result>>
  /\ TaskFrame

\* the done callback active_tasks.discard, in the order the tasks finished
DiscardCallback(j) ==
  /\ LoopFree
  /\ undiscarded # <<>>
  /\ j = Head(undiscarded)
  /\ undiscarded' = Tail(undiscarded)
  /\ active_tasks' = active_tasks \ {j}
  /\ UNCHANGED <<inputVars, should_stop, stop_pc, driver_pc, batch_id, max_concurrent,
                 pending_jobs, processed, total_jobs, wait_set, tasks, jobs, write_lock,
                 rate_limiter, now, signalVars, store_failed, provider_result, stop_snapshot, rate_limit_hit, rlVars, dbVars>>

TaskStep(j) ==
  \/ TaskStarts(j)
  \/ \E r \in ProviderReturns : ProviderResolves(j, r)
  \/ ProviderRaises(j)
  \/ ResumeWithResponse(j)
  \/ ResumeWithError(j)
  \/ UpdateResponseCommits(j)
  \/ UpdateResponseFails(j)
  \/ DirectUpdateCommits(j)
  \/ DirectUpdateFails(j)
  \/ ErrorResponseCommits(j)
  \/ ErrorResponseFails(j)
  \/ TaskCancelled(j)
  \/ DiscardCallback(j)

Next ==
  \/ Begin
  \/ AddBatch
  \/ GetPendingJobs
  \/ BatchFails
  \/ WhileCheck
  \/ StartTask
  \/ AwaitTasks
  \/ WaitReturns
  \/ SleepReturns
  \/ StopCheck
  \/ GatherReturns
  \/ FinalStatus
  \/ EmitFinished
  \/ Stop
  \/ DispatcherTick
  \/ \E j \in JobIds : TaskStep(j)

Spec == Init /\ [][Next]_vars

\* the steps of process_batch itself
DriverStep ==
  \/ Begin
  \/ AddBatch
  \/ GetPendingJobs
  \/ BatchFails
  \/ WhileCheck
  \/ StartTask
  \/ AwaitTasks
  \/ WaitReturns
  \/ SleepReturns
  \/ StopCheck
  \/ GatherReturns
  \/ FinalStatus
  \/ EmitFinished

\* run_until_complete keeps the loop running: process_batch goes on whenever it can,
\* and every provider call, store operation and queued callback of a task eventually
\* returns.  Nothing is assumed about stop() or the clock.
SpecFair == Spec /\ WF_vars(DriverStep) /\ \A j \in JobIds : WF_vars(TaskStep(j))

(***************************************************************************)
(* SpecRL: one RateLimiter driven directly.  rl_est is the estimated_tokens *)
(* the caller asks with, rl_res the value of the last can_make_request,    *)
(* rl_op the last operation, rl_adds the number of add_request calls and   *)
(* rl_denied whether can_make_request has ever returned False.             *)
(***************************************************************************)
dispatcherVars == <<inputVars, should_stop, stop_pc, driverVars, undiscarded, tasks, jobs,
                    write_lock, rate_limiter, signalVars, store_failed, provider_result,
                    stop_snapshot, rate_limit_hit>>

InitRL ==
  /\ model_name = "o1"
  /\ batch_size = 0
  /\ num_docs = 0
  /\ should_stop = FALSE
  /\ stop_pc = "idle"
  /\ driver_pc = "start"
  /\ batch_id = 0
  /\ max_concurrent = 0
  /\ pending_jobs = <<>>
  /\ active_tasks = {}
  /\ processed = 0
  /\ total_jobs = 0
  /\ wait_set = {}
  /\ undiscarded = <<>>
  /\ tasks = [j \in JobIds |-> NoTask]
  /\ jobs = <<>>
  /\ write_lock = FreeLock
  /\ rate_limiter = RateLimiterFor(model_name)
  /\ now = 0
  /\ status_log = {}
  /\ run_status = ""
  /\ finished_count = 0
  /\ error_log = {}
  /\ last_progress = <<0, 0>>
  /\ update_events = {}
  /\ store_failed = FALSE
  /\ provider_result = [j \in JobIds |-> NoResult]
  /\ stop_snapshot = [early |-> FALSE, received |-> {}, jobs |-> <<>>]
  /\ rate_limit_hit = FALSE
  /\ DBParked
  /\ \E rpm \in RPMs, tpm \in TPMs : rl = NewRateLimiter(rpm, tpm)
  /\ rl_est \in EstTokens
  /\ rl_res = "none"
  /\ rl_op = "new"
  /\ rl_adds = 0
  /\ rl_denied = FALSE

RLAddRequest(token_count) ==
  /\ rl_adds < MaxAdds
  /\ now <= LastAddTime
  /\ rl' = AddRequest(rl, now, token_count)
  /\ rl_op' = "add"
  /\ rl_adds' = rl_adds + 1
  /\ UNCHANGED <<dispatcherVars, dbVars, now, rl_est, rl_res, rl_denied>>

RLCanMakeRequest ==
  /\ LET call == CanMakeRequest(rl, now, rl_est)
     IN /\ rl' = call.limiter
        /\ rl_res' = IF call.result THEN "true" ELSE "false"
        /\ rl_denied' = (rl_denied \/ ~call.result)
  /\ rl_op' = "can"
  /\ UNCHANGED <<dispatcherVars, dbVars, now, rl_est, rl_adds>>

RLTick ==
  /\ \E d \in TickSteps : ClockAdvances(d)
  /\ rl_op' = "tick"
  /\ UNCHANGED <<dispatcherVars, dbVars, rl, rl_est, rl_res, rl_adds, rl_denied>>

NextRL ==
  \/ \E t \in AddTokens : RLAddRequest(t)
  \/ RLCanMakeRequest
  \/ RLTick

SpecRL == InitRL /\ [][NextRL]_vars

\* the clock keeps running and the caller keeps asking
SpecRLFair == SpecRL /\ WF_vars(RLTick) /\ WF_vars(RLCanMakeRequest)

(***************************************************************************)
(* SpecDB: the DatabaseManager driven directly by coroutines of one event  *)
(* loop.  jobs is the committed processing_jobs table and write_lock the   *)
(* manager's lock.  SQLite has one write transaction at a time: open_tx    *)
(* names the connection that owns it and holds the table as that           *)
(* connection sees it; every other connection sees the committed table.    *)
(* A connection released with its transaction open keeps it open.          *)
(* Each action runs one coroutine from one await to the next.              *)
(***************************************************************************)
StoreModel == "o3-mini"
\* the (response, token_count) pairs update_response is called with
StoreResults == {[text |-> "first", tokens |-> 10], [text |-> "second", tokens |-> 20]}

\* which call and which statement wrote a field, and whether that call raised before
\* its commit
W(k, stmt) == [call |-> k, stmt |-> stmt, aborted |-> FALSE]
RowWrittenBy(w) == [response |-> w, token_count |-> w]

storeIdleVars == <<inputVars, should_stop, stop_pc, driverVars, undiscarded, tasks,
                   rate_limiter, now, signalVars, store_failed, provider_result,
                   stop_snapshot, rate_limit_hit, rlVars>>

InitDB ==
  /\ model_name = StoreModel
  /\ batch_size = 0
  /\ num_docs = 0
  /\ should_stop = FALSE
  /\ stop_pc = "idle"
  /\ driver_pc = "start"
  /\ batch_id = 0
  /\ max_concurrent = 0
  /\ pending_jobs = <<>>
  /\ active_tasks = {}
  /\ processed = 0
  /\ total_jobs = 0
  /\ wait_set = {}
  /\ undiscarded = <<>>
  /\ tasks = [j \in JobIds |-> NoTask]
  /\ write_lock = FreeLock
  /\ rate_limiter = RateLimiterFor(model_name)
  /\ now = 0
  /\ status_log = {}
  /\ run_status = ""
  /\ finished_count = 0
  /\ error_log = {}
  /\ last_progress = <<0, 0>>
  /\ update_events = {}
  /\ store_failed = FALSE
  /\ provider_result = [j \in JobIds |-> NoResult]
  /\ stop_snapshot = [early |-> FALSE, received |-> {}, jobs |-> <<>>]
  /\ rate_limit_hit = FALSE
  /\ RLParked
  /\ jobs \in {<<>>, <<NewRow(1, 0, StoreModel)>>}
  /\ written_by = [i \in 1..Len(jobs) |-> RowWrittenBy(W(0, "add_batch"))]
  /\ connection_pool = <<>>
  /\ active_connections = {}
  /\ conns_made = 0
  /\ open_tx = NoTx
  /\ callers = [c \in Callers |-> NoCaller]
  /\ calls_made = 0
  /\ issued = <<>>
  /\ last_update = [id \in StoreIds |-> NeverUpdated]

\* the operations that take write_lock
Locked(op) == op \in {"add_batch", "update_response", "save_config"}
\* where a caller is in the dispatcher's own UPDATE, after update_response has returned
DirectPcs == {"direct_write", "direct_commit"}

HoldsLock(c) == Locked(callers[c].op) /\ callers[c].pc \notin DirectPcs

\* what a connection sees: its own open transaction, else the committed table
View(conn) == IF open_tx.conn = conn THEN open_tx.rows ELSE jobs
ViewBy(conn) == IF open_tx.conn = conn THEN open_tx.by ELSE written_by
\* a write statement on conn goes through only when no other connection has a
\* transaction open; otherwise it waits, and raises 'database is locked' on timeout
CanWrite(conn) == open_tx.conn \in {0, conn}
\* conn.commit() or conn.rollback(): the connection's transaction is over
TxClosed(conn) == IF open_tx.conn = conn THEN NoTx ELSE open_tx

\* get_connection: a new connection when the pool is empty, else the pool's last one
GetConnection(pool, made) ==
  IF pool = <<>>
  THEN [conn |-> made + 1, pool |-> pool, made |-> made + 1]
  ELSE [conn |-> pool[Len(pool)], pool |-> SubSeq(pool, 1, Len(pool) - 1), made |-> made]

\* release_connection that leaves the connection in _active_connections
ReleaseConnectionKeepsActive(conn) ==
  [active |-> active_connections,
   pool |-> IF Len(connection_pool) < MaxConnections
            THEN Append(connection_pool, conn) ELSE connection_pool,
   closed |-> Len(connection_pool) >= MaxConnections]

\* release_connection: out of _active_connections, back to the pool or closed
ReleaseConnection(conn) ==
  [active |-> active_connections \ {conn},
   pool |-> IF Len(connection_pool) < MaxConnections
            THEN Append(connection_pool, conn) ELSE connection_pool,
   closed |-> Len(connection_pool) >= MaxConnections]

\* the finally block of an operation: the connection is released (closing it rolls its
\* transaction back), then the write lock, if the operation took it
Release(c, tx) ==
  LET conn == callers[c].conn
      rel == ReleaseConnection(conn)
  IN /\ active_connections' = rel.active
     /\ connection_pool' = rel.pool
     /\ open_tx' = IF rel.closed /\ tx.conn = conn THEN NoTx ELSE tx
     /\ write_lock' = IF HoldsLock(c) THEN ReleaseLock(write_lock) ELSE write_lock

\* the call is over
Return(c) == callers' = [callers EXCEPT ![c] = NoCaller]

\* the transaction of a call that raised before its commit: its writes are marked
Aborted(tx, k, stmt) ==
  LET mark(w) == IF w.call = k /\ w.stmt = stmt THEN [w EXCEPT !.aborted = TRUE] ELSE w
  IN [tx EXCEPT !.by = [i \in 1..Len(tx.by) |->
                          [response |-> mark(tx.by[i].response),
                           token_count |-> mark(tx.by[i].token_count)]]]

\* the operations that only read: one SELECT, then finally release
ReadOps == {"get_pending_jobs", "get_batch_results", "get_config"}

FirstStatement(op) ==
  CASE op = "add_batch" -> "select"
    [] op = "update_response" -> "select"
    [] op \in ReadOps -> "read"
    [] OTHER -> "write"

\* a coroutine calls an operation.  Up to its first statement the operation does not
\* suspend unless it has to wait for the write lock: the connection is taken at once.
\* Coroutines not in a call are interchangeable: the call is made by the first of them.
StartCall(c, op, arg, r, direct) ==
  /\ callers[c].pc = "idle"
  /\ \A d \in Callers : d < c => callers[d].pc # "idle"
  /\ calls_made < MaxCalls
  /\ calls_made' = calls_made + 1
  /\ LET me == [NoCaller EXCEPT !.op = op, !.arg = arg, !.text = r.text,
                                !.tokens = r.tokens, !.direct = direct,
                                !.call = calls_made + 1]
         got == GetConnection(connection_pool, conns_made)
     IN IF Locked(op) /\ ~(write_lock.holder = 0 /\ write_lock.waiters = <<>>)
        THEN /\ write_lock' = AcquireLock(write_lock, c)
             /\ callers' = [callers EXCEPT ![c] = [me EXCEPT !.pc = "conn"]]
             /\ UNCHANGED <<connection_pool, conns_made, active_connections>>
        ELSE /\ write_lock' = IF Locked(op) THEN AcquireLock(write_lock, c) ELSE write_lock
             /\ connection_pool' = got.pool
             /\ conns_made' = got.made
             /\ active_connections' = active_connections \cup {got.conn}
             /\ callers' = [callers EXCEPT ![c] = [me EXCEPT !.conn = got.conn,
                                                             !.pc = FirstStatement(op)]]
  /\ UNCHANGED <<storeIdleVars, jobs, written_by, open_tx, issued, last_update>>

CallAddBatch(c, n) == StartCall(c, "add_batch", n, NoUpdate, FALSE)
CallUpdateResponse(c, id, r, direct) == StartCall(c, "update_response", id, r, direct)
CallGetPendingJobs(c, b) == StartCall(c, "get_pending_jobs", b, NoUpdate, FALSE)
CallClearResponses(c) == StartCall(c, "clear_responses_in_db", 0, NoUpdate, FALSE)
CallGetBatchResults(c, b) == StartCall(c, "get_batch_results", b, NoUpdate, FALSE)
CallSaveConfig(c) == StartCall(c, "save_config", 0, NoUpdate, FALSE)
CallGetConfig(c) == StartCall(c, "get_config", 0, NoUpdate, FALSE)

\* the write lock was handed to the waiting operation: get_connection
StoreGetConnection(c) ==
  /\ callers[c].pc = "conn"
  /\ write_lock.holder = c
  /\ LET got == GetConnection(connection_pool, conns_made)
     IN /\ connection_pool' = got.pool
        /\ conns_made' = got.made
        /\ active_connections' = active_connections \cup {got.conn}
        /\ callers' = [callers EXCEPT ![c] = [@ EXCEPT !.conn = got.conn,
                                                         !.pc = FirstStatement(callers[c].op)]]
  /\ UNCHANGED <<storeIdleVars, jobs, written_by, write_lock, open_tx, calls_made,
                 issued, last_update>>

\* aiosqlite.connect or the PRAGMA raises: the operation ends without a connection
StoreGetConnectionFails(c) ==
  /\ callers[c].pc = "conn"
  /\ write_lock.holder = c
  /\ connection_pool = <<>>
  /\ write_lock' = ReleaseLock(write_lock)
  /\ Return(c)
  /\ UNCHANGED <<storeIdleVars, jobs, written_by, connection_pool, active_connections,
                 conns_made, open_tx, calls_made, issued, last_update>>

\* executemany(INSERT ...): the first n documents, row_index 0..n-1, under batch
InsertRows(rows, batch, n, name) == rows \o [i \in 1..n |-> NewRow(batch, i - 1, name)]

\* the statement's effect on the connection's transaction
Wrote(conn, rows, by) == [conn |-> conn, rows |-> rows, by |-> by]

\* add_batch: SELECT COALESCE(MAX(batch_id), 0) + 1 on the connection's view
AddBatchSelect(c) ==
  /\ callers[c].pc = "select"
  /\ callers[c].op = "add_batch"
  /\ callers' = [callers EXCEPT ![c] = [@ EXCEPT
                    !.batch_id = MaxBatchId(View(callers[c].conn)) + 1,
                    !.pc = "insert"]]
  /\ UNCHANGED <<storeIdleVars, jobs, written_by, write_lock, connection_pool,
                 active_connections, conns_made, open_tx, calls_made, issued, last_update>>

\* the transaction after the first m documents of the call were inserted; with no
\* document the statement writes nothing
AfterInsert(c, m) ==
  LET conn == callers[c].conn
  IN IF m = 0 THEN open_tx
     ELSE Wrote(conn, InsertRows(View(conn), callers[c].batch_id, m, StoreModel),
                ViewBy(conn) \o [i \in 1..m |-> RowWrittenBy(W(callers[c].call, "add_batch"))])

\* add_batch: executemany inserts every document
AddBatchInsert(c) ==
  /\ callers[c].pc = "insert"
  /\ callers[c].arg > 0 => CanWrite(callers[c].conn)
  /\ open_tx' = AfterInsert(c, callers[c].arg)
  /\ callers' = [callers EXCEPT ![c].pc = "commit"]
  /\ UNCHANGED <<storeIdleVars, jobs, written_by, write_lock, connection_pool,
                 active_connections, conns_made, calls_made, issued, last_update>>

\* add_batch raises after m of its documents were inserted (a row is rejected, the
\* disk is full, the database is locked, the commit fails): finally releases the
\* connection, nothing is rolled back
AddBatchRaises(c, m) ==
  /\ callers[c].pc = "insert"
  /\ m <= callers[c].arg
  /\ m > 0 => CanWrite(callers[c].conn)
  /\ Release(c, Aborted(AfterInsert(c, m), callers[c].call, "add_batch"))
  /\ Return(c)
  /\ UNCHANGED <<storeIdleVars, jobs, written_by, conns_made, calls_made, issued,
                 last_update>>

\* add_batch: conn.commit(); return batch_id; finally release
AddBatchCommit(c) ==
  /\ callers[c].pc = "commit"
  /\ callers[c].op = "add_batch"
  /\ jobs' = View(callers[c].conn)
  /\ written_by' = ViewBy(callers[c].conn)
  /\ Release(c, TxClosed(callers[c].conn))
  /\ issued' = Append(issued, callers[c].batch_id)
  /\ Return(c)
  /\ UNCHANGED <<storeIdleVars, conns_made, calls_made, last_update>>

\* update_response: SELECT model_name ... WHERE id = ?; no such row: return
UpdateResponseSelect(c) ==
  /\ callers[c].pc = "select"
  /\ callers[c].op = "update_response"
  /\ IF callers[c].arg <= Len(View(callers[c].conn))
     THEN /\ callers' = [callers EXCEPT ![c].pc = "write"]
          /\ UNCHANGED <<write_lock, connection_pool, active_connections, open_tx>>
     ELSE /\ Release(c, open_tx)
          /\ Return(c)
  /\ UNCHANGED <<storeIdleVars, jobs, written_by, conns_made, calls_made, issued,
                 last_update>>

\* an UPDATE that sets the response and the status and leaves token_count and cost
AfterUpdateResponseTextOnly(c) ==
  LET conn == callers[c].conn
      id == callers[c].arg
  IN Wrote(conn,
           [View(conn) EXCEPT ![id].response = Text(callers[c].text),
                              ![id].status = "completed"],
           [ViewBy(conn) EXCEPT ![id] = RowWrittenBy(W(callers[c].call, "update_response"))])

\* the transaction after UPDATE ... SET response, token_count, cost, status
AfterUpdateResponse(c) ==
  LET conn == callers[c].conn
      id == callers[c].arg
  IN Wrote(conn,
           UpdateResponseRow(View(conn), id, Text(callers[c].text), callers[c].tokens),
           [ViewBy(conn) EXCEPT ![id] = RowWrittenBy(W(callers[c].call, "update_response"))])

UpdateResponseWrite(c) ==
  /\ callers[c].pc = "write"
  /\ callers[c].op = "update_response"
  /\ CanWrite(callers[c].conn)
  /\ open_tx' = AfterUpdateResponse(c)
  /\ last_update' = [last_update EXCEPT ![callers[c].arg] =
                       [text |-> callers[c].text, tokens |-> callers[c].tokens,
                        before |-> @.text]]
  /\ callers' = [callers EXCEPT ![c].pc = "commit"]
  /\ UNCHANGED <<storeIdleVars, jobs, written_by, write_lock, connection_pool,
                 active_connections, conns_made, calls_made, issued>>

\* update_response raises at its UPDATE (wrote = FALSE) or at its commit, the UPDATE
\* executed (wrote = TRUE): finally releases the connection, nothing is rolled back
UpdateResponseRaises(c, wrote) ==
  /\ callers[c].pc = IF wrote THEN "commit" ELSE "write"
  /\ callers[c].op = "update_response"
  /\ Release(c, Aborted(open_tx, callers[c].call, "update_response"))
  /\ Return(c)
  /\ UNCHANGED <<storeIdleVars, jobs, written_by, conns_made, calls_made, issued,
                 last_update>>

\* update_response: conn.commit(); finally release.  Called from process_document
\* line 123 (direct), the caller goes on to its own UPDATE: get_connection follows the
\* release without an await in between.
UpdateResponseCommit(c) ==
  /\ callers[c].pc = "commit"
  /\ callers[c].op = "update_response"
  /\ jobs' = View(callers[c].conn)
  /\ written_by' = ViewBy(callers[c].conn)
  /\ write_lock' = ReleaseLock(write_lock)
  /\ open_tx' = TxClosed(callers[c].conn)
  /\ LET rel == ReleaseConnection(callers[c].conn)
         got == GetConnection(rel.pool, conns_made)
     IN IF callers[c].direct
        THEN /\ connection_pool' = got.pool
             /\ active_connections' = rel.active \cup {got.conn}
             /\ callers' = [callers EXCEPT ![c] = [@ EXCEPT !.pc = "direct_write",
                                                              !.conn = got.conn]]
        ELSE /\ connection_pool' = rel.pool
             /\ active_connections' = rel.active
             /\ Return(c)
  /\ UNCHANGED <<storeIdleVars, conns_made, calls_made, issued, last_update>>

\* the transaction after process_document's UPDATE ... SET status, token_count, cost
AfterDirectUpdate(c) ==
  LET conn == callers[c].conn
      id == callers[c].arg
  IN Wrote(conn,
           ForceCompletedRow(View(conn), id, StoreModel, callers[c].tokens),
           [ViewBy(conn) EXCEPT ![id].token_count = W(callers[c].call, "direct")])

DirectUpdateWrite(c) ==
  /\ callers[c].pc = "direct_write"
  /\ CanWrite(callers[c].conn)
  /\ open_tx' = AfterDirectUpdate(c)
  /\ callers' = [callers EXCEPT ![c].pc = "direct_commit"]
  /\ UNCHANGED <<storeIdleVars, jobs, written_by, write_lock, connection_pool,
                 active_connections, conns_made, calls_made, issued, last_update>>

\* the dispatcher's UPDATE raises, at the statement or at its commit: finally releases
DirectUpdateRaises(c, wrote) ==
  /\ callers[c].pc = IF wrote THEN "direct_commit" ELSE "direct_write"
  /\ Release(c, Aborted(open_tx, callers[c].call, "direct"))
  /\ Return(c)
  /\ UNCHANGED <<storeIdleVars, jobs, written_by, conns_made, calls_made, issued,
                 last_update>>

DirectUpdateCommit(c) ==
  /\ callers[c].pc = "direct_commit"
  /\ jobs' = View(callers[c].conn)
  /\ written_by' = ViewBy(callers[c].conn)
  /\ Release(c, TxClosed(callers[c].conn))
  /\ Return(c)
  /\ UNCHANGED <<storeIdleVars, conns_made, calls_made, issued, last_update>>

\* get_pending_jobs, get_batch_results, get_config: the SELECT on the connection's
\* view, or its exception; finally release
GetPendingJobsRead(c) ==
  /\ callers[c].pc = "read"
  /\ Release(c, open_tx)
  /\ Return(c)
  /\ UNCHANGED <<storeIdleVars, jobs, written_by, conns_made, calls_made, issued,
                 last_update>>

\* UPDATE processing_jobs SET response = '', status = 'pending', token_count = 0, cost = 0
ClearedRow(row) ==
  [row EXCEPT !.response = Text(""), !.status = "pending", !.token_count = 0, !.cost = 0]

ClearResponsesWrite(c) ==
  /\ callers[c].pc = "write"
  /\ callers[c].op = "clear_responses_in_db"
  /\ CanWrite(callers[c].conn)
  /\ LET conn == callers[c].conn
     IN open_tx' = Wrote(conn,
                         [i \in 1..Len(View(conn)) |-> ClearedRow(View(conn)[i])],
                         [i \in 1..Len(View(conn)) |->
                            RowWrittenBy(W(callers[c].call, "clear_responses_in_db"))])
  /\ callers' = [callers EXCEPT ![c].pc = "commit"]
  /\ UNCHANGED <<storeIdleVars, jobs, written_by, write_lock, connection_pool,
                 active_connections, conns_made, calls_made, issued, last_update>>

ClearResponsesCommit(c) ==
  /\ callers[c].pc = "commit"
  /\ callers[c].op = "clear_responses_in_db"
  /\ jobs' = View(callers[c].conn)
  /\ written_by' = ViewBy(callers[c].conn)
  /\ Release(c, TxClosed(callers[c].conn))
  /\ Return(c)
  /\ UNCHANGED <<storeIdleVars, conns_made, calls_made, issued, last_update>>

\* clear_responses_in_db raises: except rolls the connection's transaction back
ClearResponsesRaises(c) ==
  /\ callers[c].pc \in {"write", "commit"}
  /\ callers[c].op = "clear_responses_in_db"
  /\ Release(c, TxClosed(callers[c].conn))
  /\ Return(c)
  /\ UNCHANGED <<storeIdleVars, jobs, written_by, conns_made, calls_made, issued,
                 last_update>>

\* save_config: INSERT OR REPLACE INTO config opens the connection's write transaction;
\* the config table is not part of the state
SaveConfigWrite(c) ==
  /\ callers[c].pc = "write"
  /\ callers[c].op = "save_config"
  /\ CanWrite(callers[c].conn)
  /\ open_tx' = Wrote(callers[c].conn, View(callers[c].conn), ViewBy(callers[c].conn))
  /\ callers' = [callers EXCEPT ![c].pc = "commit"]
  /\ UNCHANGED <<storeIdleVars, jobs, written_by, write_lock, connection_pool,
                 active_connections, conns_made, calls_made, issued, last_update>>

\* save_config: conn.commit(); finally release
SaveConfigCommit(c) ==
  /\ callers[c].pc = "commit"
  /\ callers[c].op = "save_config"
  /\ jobs' = View(callers[c].conn)
  /\ written_by' = ViewBy(callers[c].conn)
  /\ Release(c, TxClosed(callers[c].conn))
  /\ Return(c)
  /\ UNCHANGED <<storeIdleVars, conns_made, calls_made, issued, last_update>>

\* save_config raises at its statement or at its commit: finally releases
SaveConfigRaises(c) ==
  /\ callers[c].pc \in {"write", "commit"}
  /\ callers[c].op = "save_config"
  /\ Release(c, open_tx)
  /\ Return(c)
  /\ UNCHANGED <<storeIdleVars, jobs, written_by, conns_made, calls_made, issued,
                 last_update>>

CallerStep(c) ==
  \/ \E n \in DocCounts : CallAddBatch(c, n)
  \/ \E id \in StoreIds, r \in StoreResults, direct \in BOOLEAN :
       (direct => r.text = "first") /\ CallUpdateResponse(c, id, r, direct)
  \/ CallGetPendingJobs(c, 1)
  \/ CallClearResponses(c)
  \/ CallGetBatchResults(c, 1)
  \/ CallSaveConfig(c)
  \/ CallGetConfig(c)
  \/ StoreGetConnection(c)
  \/ StoreGetConnectionFails(c)
  \/ AddBatchSelect(c)
  \/ AddBatchInsert(c)
  \/ \E m \in 0..MaxDocs : AddBatchRaises(c, m)
  \/ AddBatchCommit(c)
  \/ UpdateResponseSelect(c)
  \/ UpdateResponseWrite(c)
  \/ \E wrote \in BOOLEAN : UpdateResponseRaises(c, wrote)
  \/ UpdateResponseCommit(c)
  \/ DirectUpdateWrite(c)
  \/ \E wrote \in BOOLEAN : DirectUpdateRaises(c, wrote)
  \/ DirectUpdateCommit(c)
  \/ GetPendingJobsRead(c)
  \/ ClearResponsesWrite(c)
  \/ ClearResponsesCommit(c)
  \/ ClearResponsesRaises(c)
  \/ SaveConfigWrite(c)
  \/ SaveConfigCommit(c)
  \/ SaveConfigRaises(c)

NextDB == \E c \in Callers : CallerStep(c)

SpecDB == InitDB /\ [][NextDB]_vars

(***************************************************************************)
(* SpecPool: the connection pool alone, used by process_document tasks in  *)
(* their own UPDATE (get_connection ... finally release_connection), which *)
(* takes no lock: up to MaxHolders tasks are between the two calls at the  *)
(* same time.  MaxMade caps the connections aiosqlite.connect ever opens.  *)
(***************************************************************************)
InitPool == InitDB /\ jobs = <<>>

\* conn = await self.db_manager.get_connection()
TaskGetConnection ==
  /\ Cardinality(active_connections) < MaxHolders
  /\ LET got == GetConnection(connection_pool, conns_made)
     IN /\ got.made <= MaxMade
        /\ connection_pool' = got.pool
        /\ conns_made' = got.made
        /\ active_connections' = active_connections \cup {got.conn}
  /\ UNCHANGED <<storeIdleVars, jobs, write_lock, open_tx, written_by, callers, calls_made,
                 issued, last_update>>

\* finally: await self.db_manager.release_connection(conn)
TaskReleaseConnection(conn) ==
  /\ conn \in active_connections
  /\ LET rel == ReleaseConnection(conn)
     IN /\ active_connections' = rel.active
        /\ connection_pool' = rel.pool
  /\ UNCHANGED <<storeIdleVars, jobs, write_lock, conns_made, open_tx, written_by, callers,
                 calls_made, issued, last_update>>

NextPool ==
  \/ TaskGetConnection
  \/ \E conn \in 1..MaxMade : TaskReleaseConnection(conn)

SpecPool == InitPool /\ [][NextPool]_vars

(***************************************************************************)
(* Properties of the dispatcher.                                           *)
(***************************************************************************)
Started(j) == tasks[j].pc # "none"
InFlight == {j \in JobIds : Started(j) /\ ~Finished(j)}
NonEmptyResponse(r) == ~r.null /\ (r.prefix # "" \/ r.body # "")
RunOver == driver_pc = "done"

\* C1: once the run has finished, normally or after stop(), and no store operation
\* failed, every job a process_document task was started for is 'completed' with a
\* non-null, non-empty response.
C1_StartedJobsCompleted ==
  (RunOver /\ ~store_failed) =>
    \A j \in JobIds :
      Started(j) => /\ jobs[j].status = "completed"
                    /\ NonEmptyResponse(jobs[j].response)

C3_NoTaskInFlightAtReturn ==
  (should_stop /\ finished_count > 0) => InFlight = {}

\* C4: a job whose provider response had already been received when stop() was
\* called is persisted all the same: after the run (no store operation having failed)
\* no such job is still 'pending'.
C4_ReceivedResponsePersisted ==
  (RunOver /\ ~store_failed) =>
    \A j \in stop_snapshot.received : jobs[j].status = "completed"

\* C5: when stop() was called (before the run's final stop check, the run not being
\* aborted by an exception of the driving loop) after k jobs were persisted as
\* completed, then at the end of the run the jobs never popped from the pending list
\* are still 'pending', the k completed rows are unchanged, and the run ended
\* 'Processing stopped by user' followed by finished.
C5_StopKeepsCompletedJobs ==
  (RunOver /\ stop_snapshot.early /\ "Batch processing error" \notin error_log) =>
    /\ \A i \in 1..Len(pending_jobs) : jobs[pending_jobs[i]].status = "pending"
    /\ \A j \in 1..Len(stop_snapshot.jobs) :
         stop_snapshot.jobs[j].status = "completed" => jobs[j] = stop_snapshot.jobs[j]
    /\ run_status = MsgStopped
    /\ finished_count = 1

\* C6: with no stop request and no store failure, a job whose provider call raised ends
\* 'completed' with an 'Error processing:' response, token_count 0 and cost 0, every
\* other job ends 'completed' with the response the provider returned, and the run
\* ends 'Processing completed'.
C6_ProviderErrorsRecovered ==
  (RunOver /\ stop_pc = "idle" /\ ~store_failed) =>
    /\ \A j \in 1..Len(jobs) :
         /\ jobs[j].status = "completed"
         /\ IF provider_result[j].kind = "raised"
            THEN /\ jobs[j].response.prefix = "Error processing: "
                 /\ jobs[j].token_count = 0
                 /\ jobs[j].cost = 0
            ELSE jobs[j].response = Text(provider_result[j].text)
    /\ run_status = MsgCompleted

\* C7: a job is admitted (popped and its task created) only when can_make_request
\* says yes at that moment; never while the window is at its request or token ceiling.
C7_AdmissionThroughLimiter ==
  [][Len(pending_jobs') < Len(pending_jobs)
       => CanMakeRequest(rate_limiter, now, DefaultEstimatedTokens).result]_vars

\* C8: a run that had more jobs than the limiter admits at once has emitted a status
\* message containing 'Rate limit reached' by the time it finishes.
C8_RateLimitReachedReported ==
  (RunOver /\ rate_limit_hit) => MsgRateLimit \in status_log

(***************************************************************************)
(* Properties of the RateLimiter (SpecRL, SpecRLFair).                     *)
(***************************************************************************)
InWindowTimestamps(q, t) == SelectSeq(q, LAMBDA ts : ts >= t - 60)
InWindowUsage(q, t) == SelectSeq(q, LAMBDA e : e[1] >= t - 60)
AllEntriesAre(q, e) == \A i \in 1..Len(q) : q[i] = e

\* C9: can_make_request(estimated_tokens) first drops every recorded timestamp and
\* usage entry strictly older than now - 60 s, then returns False exactly when the
\* remaining request count is >= requests_per_minute or the remaining token sum plus
\* estimated_tokens is > tokens_per_minute; so after R add_request(T) calls in one
\* second it returns False for T exactly when R+1 > requests_per_minute or
\* (R+1)*T > tokens_per_minute.
C9_CanMakeRequest ==
  [][rl_op' = "can" =>
       LET R == Len(rl.request_timestamps)
       IN /\ rl'.request_timestamps = InWindowTimestamps(rl.request_timestamps, now)
          /\ rl'.token_usage = InWindowUsage(rl.token_usage, now)
          /\ (rl_res' = "false") <=>
               \/ Len(rl'.request_timestamps) >= rl.requests_per_minute
               \/ SumTokens(rl'.token_usage) + rl_est > rl.tokens_per_minute
          /\ rl_res' \in {"true", "false"}
          /\ (rl_adds = R /\ AllEntriesAre(rl.token_usage, <<now, rl_est>>)) =>
               ((rl_res' = "false") <=>
                  \/ R + 1 > rl.requests_per_minute
                  \/ (R + 1) * rl_est > rl.tokens_per_minute)]_vars

\* C9 witness: can_make_request has purged an aged entry and still says no because of
\* the entries that remain.
C9_Witness ==
  /\ rl_op = "can"
  /\ rl_res = "false"
  /\ rl.requests_per_minute >= 1
  /\ rl_est <= rl.tokens_per_minute
  /\ rl.request_timestamps # <<>>
  /\ Len(rl.request_timestamps) < rl_adds

\* C10: with requests_per_minute >= 1 and estimated_tokens <= tokens_per_minute, a
\* limiter that has said no says yes again once the recorded entries have aged past
\* the window; it never stays closed for ever.
C10_LimiterReopens ==
  (rl.requests_per_minute >= 1 /\ rl_est <= rl.tokens_per_minute /\ rl_res = "false")
    ~> (rl_res = "true")

\* C10 witness: can_make_request says yes after it has said no, every recorded entry
\* having aged out.
C10_Witness ==
  /\ rl_denied
  /\ rl_op = "can"
  /\ rl_res = "true"
  /\ rl_adds > 0
  /\ rl.request_timestamps = <<>>

(***************************************************************************)
(* Properties of the DatabaseManager (SpecDB).                             *)
(***************************************************************************)
\* C11: every add_batch call that returns, returns the maximum batch_id of the store
\* plus 1 (1 for an empty store), a value strictly greater than every batch_id an
\* earlier call returned; no two calls get the same batch_id.
C11_FreshBatchId ==
  [][Len(issued') > Len(issued) =>
       LET b == issued'[Len(issued')]
       IN /\ b = MaxBatchId(jobs) + 1
          /\ \A i \in 1..Len(issued) : issued[i] < b]_vars

UniquePairs(rows) ==
  \A i, k \in 1..Len(rows) :
    (rows[i].batch_id = rows[k].batch_id /\ rows[i].row_index = rows[k].row_index) => i = k

\* C12: an add_batch call with N documents that returns has inserted exactly N jobs,
\* all with the returned batch_id, the model name given and status 'pending', document
\* i with row_index i, so that 0..N-1 each occur once in the batch; and at all times
\* (batch_id, row_index) is unique among the stored jobs.
C12_BatchRows ==
  /\ []UniquePairs(jobs)
  /\ [][Len(issued') > Len(issued) =>
          LET b == issued'[Len(issued')]
              n == callers[write_lock.holder].arg
              batch == {i \in 1..Len(jobs') : jobs'[i].batch_id = b}
          IN /\ Len(jobs') = Len(jobs) + n
             /\ batch = (Len(jobs) + 1)..(Len(jobs) + n)
             /\ \A i \in batch : jobs'[i] = NewRow(b, i - Len(jobs) - 1, StoreModel)]_vars

\* the row holds what one update_response call with (r.text, r.tokens) stores
StoredBy(row, r) ==
  /\ row.response = Text(r.text)
  /\ row.token_count = r.tokens
  /\ row.cost = CalculateCost(row.model_name, r.tokens)
  /\ row.status = "completed"

\* the committed rows whose response and token_count were last written by update_response
UpdatedRows ==
  {i \in 1..Len(jobs) : /\ written_by[i].response.stmt = "update_response"
                        /\ written_by[i].token_count.stmt = "update_response"}

\* C13: an update_response call that returns leaves the row with its own response,
\* token_count and cost and with status 'completed', and it is the call whose UPDATE
\* executed last; a committed row written by update_response never mixes the response
\* of one call with the token_count or the cost of another.
C13_LastUpdateWins ==
  /\ [](\A i \in UpdatedRows :
          /\ written_by[i].response = written_by[i].token_count
          /\ \E r \in StoreResults : StoredBy(jobs[i], r))
  /\ [][\A c \in Callers :
          LET id == callers[c].arg
              me == W(callers[c].call, "update_response")
          IN (/\ callers[c].op = "update_response"
              /\ callers[c].pc = "commit"
              /\ written_by' # written_by)
             => /\ written_by'[id] = RowWrittenBy(me)
                /\ StoredBy(jobs'[id], [text |-> callers[c].text, tokens |-> callers[c].tokens])
                /\ last_update[id].text = callers[c].text
                /\ last_update[id].tokens = callers[c].tokens]_vars

\* C13 witness: the row was written by two update_response calls with different values,
\* "first" and then "second", and the committed row is the one of the second
C13_Witness ==
  /\ open_tx = NoTx
  /\ 1 \in UpdatedRows
  /\ ~written_by[1].response.aborted
  /\ written_by[1].response.call > 1
  /\ last_update[1].before = "first"
  /\ last_update[1].text = "second"
  /\ StoredBy(jobs[1], [text |-> "second", tokens |-> 20])

\* C14: every write of a job's token_count, cost or response writes the three together,
\* in the transaction of the status transition: in every committed row, and in every
\* row of an open transaction, the response and the token_count (with its cost) were
\* written by the same statement of the same call.
C14_WrittenTogether ==
  /\ \A i \in 1..Len(written_by) : written_by[i].response = written_by[i].token_count
  /\ \A i \in 1..Len(open_tx.by) : open_tx.by[i].response = open_tx.by[i].token_count

\* C15: during a run no job row is deleted, a job's status changes only from 'pending'
\* to 'completed', and a job's response is written only in the step of that change, so
\* once: the response of a completed job never changes again.
C15_ResponseWrittenOnce ==
  [][\A j \in 1..Len(jobs) :
       /\ j <= Len(jobs')
       /\ jobs'[j].status # jobs[j].status
            => jobs[j].status = "pending" /\ jobs'[j].status = "completed"
       /\ jobs'[j].response # jobs[j].response
            => jobs[j].status = "pending" /\ jobs'[j].status = "completed"]_vars

\* a statement has written to the store in this step: a transaction was opened, or the
\* rows of the open one changed
WriteStep ==
  /\ open_tx'.conn # 0
  /\ open_tx'.conn # open_tx.conn \/ open_tx'.rows # open_tx.rows

\* C16: every write to the store is executed by an operation that holds write_lock: a
\* step that writes is taken on the connection of the caller that holds the lock.
C16_WritesUnderLock ==
  [][WriteStep => \E c \in Callers : /\ callers[c].conn = open_tx'.conn
                                     /\ write_lock.holder = c
                                     /\ HoldsLock(c)]_vars

\* C17: the changes of a write that raised before its commit never become committed,
\* also after its connection went back to the pool and was used again: no committed
\* row carries a field written by a call that raised.
C17_FailedWriteNeverCommitted ==
  \A i \in 1..Len(written_by) :
    ~written_by[i].response.aborted /\ ~written_by[i].token_count.aborted

\* the connections held by the operations in progress
HeldConnections == {callers[c].conn : c \in Callers} \ {0}

\* C18: every operation releases its connection exactly once on every exit path: the
\* connections in _active_connections are exactly those of the operations in progress,
\* one per operation, and no connection is in the pool twice or in the pool while an
\* operation holds it.
C18_ConnectionsReleased ==
  /\ active_connections = HeldConnections
  /\ \A c, d \in Callers : (callers[c].conn # 0 /\ callers[c].conn = callers[d].conn) => c = d
  /\ \A i, k \in 1..Len(connection_pool) : connection_pool[i] = connection_pool[k] => i = k
  /\ \A i \in 1..Len(connection_pool) : connection_pool[i] \notin active_connections

\* C18 witness: operations have ended, one of them by raising after a write, none is in
\* progress, and every connection made is back in the pool
C18_Witness ==
  /\ calls_made >= 2
  /\ \A c \in Callers : callers[c].pc = "idle"
  /\ \E i \in 1..Len(open_tx.by) : open_tx.by[i].response.aborted
  /\ conns_made >= 1
  /\ Len(connection_pool) = conns_made
  /\ active_connections = {}

(***************************************************************************)
(* Failures of the store during a dispatcher run (Spec).                   *)
(***************************************************************************)
RunFailed == "Batch processing error" \in error_log

\* the run went on with the other jobs and ended in the Completed outcome
RunCompleted ==
  /\ pending_jobs = <<>>
  /\ \A k \in 1..total_jobs : Finished(k)
  /\ run_status = MsgCompleted
  /\ MsgStopped \notin status_log
  /\ finished_count = 1

\* update_response(job id, response, token_count) raises for job j in this step: the
\* task leaves the call without the row written and without being cancelled
UpdateResponseRaised(j) ==
  /\ tasks[j].pc = "ur"
  /\ tasks'[j].pc \notin {"ur", "cancelled"}
  /\ jobs'[j] = jobs[j]

\* the error event is emitted in the step of the failure and the task is in its except
\* branch, from where it ends in one of outcomes; a failed task stays failed and only
\* tasks that returned True are counted in processed
SurfacedAsFailed(outcomes) ==
  /\ \A j \in JobIds : UpdateResponseRaised(j) =>
        /\ tasks'[j].pc = "err"
        /\ "Error processing job" \in error_log'
        /\ store_failed'
  /\ \A j \in JobIds : tasks[j].pc = "err" => tasks'[j].pc \in {"err"} \cup outcomes
  /\ \A j \in JobIds : tasks[j].pc = "done_false" => tasks'[j].pc = "done_false"
  /\ processed' # processed
       => processed' = processed + Cardinality({k \in wait_set : tasks[k].pc = "done_true"})

C20_DrivingLoopFailure ==
  /\ [](RunFailed =>
          /\ RunOver
          /\ \A j \in JobIds : ~Started(j)
          /\ active_tasks = {}
          /\ processed = 0
          /\ error_log = {"Batch processing error"}
          /\ finished_count = 1
          /\ MsgCompleted \notin status_log
          /\ MsgStopped \notin status_log)
  /\ [][RunFailed =>
          /\ UNCHANGED <<tasks, jobs, driverVars, error_log, finished_count, run_status>>
          /\ status_log' \subseteq status_log \cup {MsgStopping}]_vars
  /\ [][RunFailed' /\ ~RunFailed =>
          /\ finished_count' = finished_count + 1
          /\ UNCHANGED <<tasks, pending_jobs, active_tasks, status_log>>]_vars

\* C20 witness: get_pending_jobs raised after add_batch had stored the batch, and the
\* run is over
C20_Witness ==
  /\ RunFailed
  /\ RunOver
  /\ jobs # <<>>
  /\ finished_count = 1

(***************************************************************************)
(* Admission order, results and progress.                                  *)
(***************************************************************************)
BatchIdsOf(rows) == {rows[i].batch_id : i \in 1..Len(rows)}

C22_OneTaskPerJob ==
  /\ [](\A i, k \in 1..Len(pending_jobs) : pending_jobs[i] = pending_jobs[k] => i = k)
  /\ [](\A i \in 1..Len(pending_jobs) : ~Started(pending_jobs[i]))
  /\ [][\A j \in JobIds : (tasks'[j].pc = "new" /\ tasks[j].pc # "new")
                             => tasks[j].pc = "none"]_vars
  /\ [][\A j \in 1..Len(jobs) :
          (Len(jobs') = Len(jobs) /\ jobs'[j] # jobs[j])
            => /\ tasks'[j] # tasks[j]
               /\ \A k \in JobIds \ {j} : tasks'[k] = tasks[k]]_vars

\* C22 witness: the tasks of two different jobs are inside update_response at the same
\* time, one holding the write lock and one waiting for it
C22_Witness ==
  \E j, k \in JobIds :
    /\ j # k
    /\ tasks[j].pc = "ur"
    /\ tasks[k].pc = "ur"
    /\ write_lock.holder = j
    /\ write_lock.waiters = <<k>>

\* no provider call of the run raised
NoProviderError == \A j \in JobIds : provider_result[j].kind # "raised"

\* C23: after a run without stop request and without store failure in which every
\* provider call returned, every job of the batch is 'completed' with the text and the
\* token count the provider returned for it and with cost calculate_cost(model_name, n).
C23_ResultsPersisted ==
  (RunOver /\ stop_pc = "idle" /\ ~store_failed /\ NoProviderError) =>
    \A j \in 1..Len(jobs) :
      /\ jobs[j].status = "completed"
      /\ jobs[j].response = Text(provider_result[j].text)
      /\ jobs[j].token_count = provider_result[j].tokens
      /\ jobs[j].cost = CalculateCost(model_name, provider_result[j].tokens)

JobAtRow(r) == {j \in 1..Len(jobs) : jobs[j].batch_id = batch_id /\ jobs[j].row_index = r}

\* what process_document makes of the outcome of job j's provider call
ProducedFor(j) ==
  {ResponseFor(provider_result[j].text), ErrorResponse(provider_result[j].text),
   ErrorResponse("database is locked")}

\* C24: every update event (row_index, response_text) carries the response produced
\* for the document at position row_index and the text persisted for that job; once a
\* run in which every provider call succeeded is over, every job has had its event
C24_UpdateEvents ==
  /\ \A e \in update_events :
       \E j \in JobAtRow(e.row_index) :
         /\ provider_result[j].kind # "none"
         /\ e.response \in ProducedFor(j)
         /\ e.response = jobs[j].response
  /\ (RunOver /\ NoProviderError) =>
       \A j \in 1..Len(jobs) : \E e \in update_events : e.row_index = jobs[j].row_index

Succeeded == {j \in JobIds : tasks[j].pc = "done_true"}

\* the step in which asyncio.wait returns and progress.emit(processed, total_jobs) runs
ProgressEmitted == driver_pc = "wait" /\ driver_pc' # "wait"

\* C25: every progress event (processed, total) has total = the number of jobs of the
\* batch and processed = the number of tasks that have finished successfully so far;
\* after a run in which all N jobs succeeded the last progress event is (N, N)
C25_ProgressCounts ==
  /\ [][ProgressEmitted =>
          last_progress' = <<Cardinality(Succeeded), Len(jobs)>>]_vars
  /\ []((RunOver /\ Succeeded = 1..Len(jobs)) => last_progress = <<Len(jobs), Len(jobs)>>)

\* C26: when the run ends "Processing completed", stop() was never requested and no
\* store operation failed, no job of the batch is still 'pending', whatever batch_size is
C26_CompletedLeavesNoPending ==
  (RunOver /\ run_status = MsgCompleted /\ stop_pc = "idle" /\ ~store_failed) =>
    \A j \in 1..Len(jobs) : jobs[j].batch_id = batch_id => jobs[j].status # "pending"

\* C27: provided every provider call and store operation eventually returns, every run
\* of process_batch eventually emits finished, and emits it exactly once, whatever the
\* number of jobs, the concurrency, the failures, and with or without stop()
C27_FinishedExactlyOnce ==
  /\ [](finished_count <= 1)
  /\ <>[](RunOver /\ finished_count = 1)

C27_Witness ==
  /\ RunOver /\ finished_count = 1
  /\ max_concurrent >= 1
  /\ stop_pc = "returned"
  /\ \E j, k \in JobIds : tasks[j].pc = "cancelled" /\ provider_result[k].kind = "raised"

(***************************************************************************)
(* The limiter's window.                                                   *)
(***************************************************************************)
\* the task of job j returns or is cancelled in this step
TaskEnds(j) == ~Finished(j) /\ Finished(j)'

\* C28: every admitted job appends exactly one entry to the limiter's window through
\* add_request, whether its provider call succeeds, fails or its task is stopped; so
\* the entries younger than 60 s are as many as the requests admitted in the last 60 s
C28_EveryAdmittedJobRecorded ==
  /\ [][\A j \in JobIds :
          TaskEnds(j) => rate_limiter'.request_timestamps
                           = AddRequest(rate_limiter, now, 0).request_timestamps]_vars
  /\ []((RunOver /\ now < Window) =>
          Len(InWindowTimestamps(rate_limiter.request_timestamps, now))
            = Cardinality({j \in JobIds : Started(j)}))

(***************************************************************************)
(* The connection pool.                                                    *)
(***************************************************************************)
OpenConnections == Len(connection_pool) + Cardinality(active_connections)

\* C29: the open store connections, pooled plus in use, are never more than
\* max_connections (5), and no connection is pooled and in use at the same time
C29_ConnectionsBounded ==
  /\ OpenConnections <= MaxConnections
  /\ \A i \in 1..Len(connection_pool) : connection_pool[i] \notin active_connections

(***************************************************************************)
(* The two deques of the RateLimiter (SpecRL).                             *)
(***************************************************************************)
NonDecreasing(q) == \A i, k \in 1..Len(q) : i < k => q[i] <= q[k]

\* C30: after any sequence of add_request and can_make_request calls made at
\* non-decreasing times, request_timestamps and token_usage have the same length, their
\* i-th entries carry the same timestamp, the timestamps are non-decreasing, and right
\* after a call no entry is strictly older than 60 s at the time of that call
C30_DequesInStep ==
  LET ts == rl.request_timestamps
      tu == rl.token_usage
  IN /\ Len(ts) = Len(tu)
     /\ \A i \in 1..Len(ts) : tu[i][1] = ts[i]
     /\ NonDecreasing(ts)
     /\ rl_op \in {"add", "can"} => \A i \in 1..Len(ts) : ts[i] >= now - Window

\* C30 witness: a can_make_request call has purged the older of the recorded entries
\* and kept a younger one
C30_Witness ==
  /\ rl_op = "can"
  /\ rl_adds >= 2
  /\ Len(rl.request_timestamps) \in 1..(rl_adds - 1)
  /\ rl.request_timestamps[1] > 0
  /\ now > Window

====
